---- MODULE Spec2Model ----
(***************************************************************************)
(* Bulk resume ranking of the JobFit Analyzer (src/app.py): the "Rank      *)
(* Resumes" button, process_bulk_resumes and the helpers it calls.         *)
(*                                                                         *)
(* Text is modelled as a sequence of chunks.  A chunk is a piece of text   *)
(* that json.loads treats as one lexical unit or rejects as a whole; the   *)
(* only chunks that hold a brace are the ones that start with "{" and the  *)
(* chunk "}", so str.find('{') and str.rfind('}') act on chunk positions.  *)
(* Python values (the result of json.loads, the fallback record, None) are *)
(* records of one shape, so that any two of them can be compared.          *)
(***************************************************************************)
EXTENDS Integers, Sequences, FiniteSets, TLC

\* ---------------------------------------------------------------- bounds
\* Longest model response, in chunks.
MaxLen == 5
\* Most documents uploaded in one request.
MaxFiles == 2

\* --------------------------------------------------------- Python values
JNone == [kind |-> "None", keys |-> <<>>, items |-> <<>>, text |-> "", num |-> 0]
JStr(s) == [kind |-> "str", keys |-> <<>>, items |-> <<>>, text |-> s, num |-> 0]
JInt(n) == [kind |-> "int", keys |-> <<>>, items |-> <<>>, text |-> "", num |-> n]
JList(xs) == [kind |-> "list", keys |-> <<>>, items |-> xs, text |-> "", num |-> 0]
\* A dict with keys ks (in insertion order) and values vs.
JDict(ks, vs) == [kind |-> "dict", keys |-> ks, items |-> vs, text |-> "", num |-> 0]
\* The value a variable holds before it is assigned.
Unset == [kind |-> "unset", keys |-> <<>>, items |-> <<>>, text |-> "", num |-> 0]

\* isinstance(v, dict)
IsDict(v) == v.kind = "dict"
\* isinstance(v, list)
IsList(v) == v.kind = "list"
\* key in v, for a dict v
HasKey(v, key) == \E i \in 1..Len(v.keys) : v.keys[i] = key
\* v[key], for a dict v that has the key
Get(v, key) == v.items[CHOOSE i \in 1..Len(v.keys) : v.keys[i] = key]

\* ------------------------------------------------------------ text chunks
\* The text  {"rankings":  that opens a record whose one key is rankings.
OpenRankings == "{\"rankings\":"
\* What get_gemini_response puts before the text of a failure.
ApiErrorPrefix == "API Error: "
\* What get_gemini_response returns for a reply without text.
UnexpectedFormat == "Error: Unexpected response format from Gemini API."
\* The chunks a reply or a failure's message is made of: the JSON pieces
\* {"rankings":  {  }  [  ]  and  []  and a word of prose.
Chunks == {OpenRankings, "{", "}", "[", "]", "[]", "prose"}

\* Whether a chunk starts with the character "{".
StartsWithBrace(c) == c \in {OpenRankings, "{"}

\* str.find('{'): the 0-based position of the first "{", or -1.
find_open(s) ==
    IF \E i \in 1..Len(s) : StartsWithBrace(s[i])
    THEN (CHOOSE i \in 1..Len(s) :
             /\ StartsWithBrace(s[i])
             /\ \A j \in 1..(i - 1) : ~StartsWithBrace(s[j])) - 1
    ELSE -1

\* str.rfind('}'): the 0-based position of the last "}", or -1.
rfind_close(s) ==
    IF \E i \in 1..Len(s) : s[i] = "}"
    THEN (CHOOSE i \in 1..Len(s) :
             /\ s[i] = "}"
             /\ \A j \in (i + 1)..Len(s) : s[j] # "}") - 1
    ELSE -1

\* s[a:b] for 0 <= a and 0 <= b <= len(s): empty when a >= b.
Slice(s, a, b) == SubSeq(s, a + 1, b)

\* ------------------------------------------------------------- json.loads
ParseFail == [ok |-> FALSE, val |-> JNone, next |-> 0]
ParseOk(v, n) == [ok |-> TRUE, val |-> v, next |-> n]

\* The JSON value that starts at chunk i of s (1-based) and the position
\* after it, or a failure.
RECURSIVE ParseValue(_, _)
ParseValue(s, i) ==
    IF i > Len(s) THEN ParseFail
    ELSE IF s[i] = "[]" THEN ParseOk(JList(<<>>), i + 1)
    ELSE IF s[i] = "[" THEN
        IF i + 1 <= Len(s) /\ s[i + 1] = "]" THEN ParseOk(JList(<<>>), i + 2)
        ELSE LET e == ParseValue(s, i + 1) IN
             IF e.ok /\ e.next <= Len(s) /\ s[e.next] = "]"
             THEN ParseOk(JList(<<e.val>>), e.next + 1)
             ELSE ParseFail
    ELSE IF s[i] = "{" THEN
        IF i + 1 <= Len(s) /\ s[i + 1] = "}" THEN ParseOk(JDict(<<>>, <<>>), i + 2)
        ELSE ParseFail
    ELSE IF s[i] = OpenRankings THEN
        LET e == ParseValue(s, i + 1) IN
        IF e.ok /\ e.next <= Len(s) /\ s[e.next] = "}"
        THEN ParseOk(JDict(<<"rankings">>, <<e.val>>), e.next + 1)
        ELSE ParseFail
    ELSE ParseFail

\* json.loads(s): the value when the whole of s is one JSON value, and
\* ok = FALSE where json.loads raises JSONDecodeError.
json_loads(s) ==
    LET r == ParseValue(s, 1) IN
    IF r.ok /\ r.next = Len(s) + 1 THEN r ELSE ParseFail

\* ------------------------------------------------------------ the inputs
\* The names of the uploaded documents, by position in the upload.
FileNames == <<"a.pdf", "b.pdf", "c.pdf", "d.pdf">>
\* The text the extractor reads out of a readable document.
ResumeText == "resume text"
\* What the job description box may hold: nothing, blanks, a description.
JobDescriptions == {"", " ", "Python developer"}
\* str.strip() of a job description.
Strip(s) == IF s = " " THEN "" ELSE s

\* The uploads of one request: up to MaxFiles documents, each readable as
\* a PDF or not.
Uploads ==
    UNION {[1..n -> BOOLEAN] : n \in 0..MaxFiles}

\* The uploaded file at position i of an upload u.
FileAt(u, i) == [name |-> FileNames[i], readable |-> u[i]]

\* prompts["rank"]
RankPrompt == "rank"

VARIABLES
    pc,               \* where the request is: idle, extract, call, parse, done
    job_description,  \* the job description box
    uploaded_files,   \* the uploaded documents
    file_idx,         \* how many documents the extraction loop has handled
    all_resumes,      \* process_bulk_resumes: the resume records built so far
    combined_prompt,  \* process_bulk_resumes: the prompt, as a sequence of parts
    calls,            \* the calls made to the model, in order
    ai_failed,        \* whether the call to the model raised
    response,         \* process_bulk_resumes: what get_gemini_response returned
    result            \* what process_bulk_resumes returned

vars == <<pc, job_description, uploaded_files, file_idx, all_resumes,
          combined_prompt, calls, ai_failed, response, result>>

\* ------------------------------------------------------------ the helpers
\* extract_text_from_pdf: the text of a readable document; for any other
\* the error is shown and the empty string returned.
extract_text_from_pdf(file) == IF file.readable THEN ResumeText ELSE ""

\* CombinedPrompt with the delimiter put between the resumes only, as a
\* join would, and not after the last one.
CombinedPromptJoined(jd, resumes) ==
    <<"Job Description:", jd, "Resumes to analyze:">>
    \o [k \in 1..(4 * Len(resumes) - 1) |->
          IF k % 4 = 1 THEN "Resume:"
          ELSE IF k % 4 = 2 THEN resumes[(k + 2) \div 4].name
          ELSE IF k % 4 = 3 THEN resumes[(k + 1) \div 4].content
          ELSE "---"]

\* The prompt process_bulk_resumes builds: the job description, then each
\* resume's name and content followed by the delimiter.
RECURSIVE ResumeSections(_)
ResumeSections(resumes) ==
    IF resumes = <<>> THEN <<>>
    ELSE <<"Resume:", Head(resumes).name, Head(resumes).content, "---">>
         \o ResumeSections(Tail(resumes))

CombinedPrompt(jd, resumes) ==
    <<"Job Description:", jd, "Resumes to analyze:">> \o ResumeSections(resumes)

\* get_gemini_response: the reply's text, the notice for a reply without
\* text, or, when the call raised, the failure's message behind the error
\* prefix.
get_gemini_response(outcome, text) ==
    IF outcome = "text" THEN text
    ELSE IF outcome = "no text" THEN <<UnexpectedFormat>>
    ELSE <<ApiErrorPrefix>> \o text

\* FallbackEntry with the rank taken to be the 0-based position itself.
FallbackEntryRankFromZero(resume, idx) ==
    JDict(<<"resume_name", "match_percentage", "rank", "strengths", "gaps">>,
          <<JStr(resume.name), JInt(0), JInt(idx),
            JList(<<JStr("Unable to analyze strengths")>>),
            JList(<<JStr("Unable to analyze gaps")>>)>>)

\* The entry the fallback holds for the resume at 0-based position idx.
FallbackEntry(resume, idx) ==
    JDict(<<"resume_name", "match_percentage", "rank", "strengths", "gaps">>,
          <<JStr(resume.name), JInt(0), JInt(idx + 1),
            JList(<<JStr("Unable to analyze strengths")>>),
            JList(<<JStr("Unable to analyze gaps")>>)>>)

\* FallbackRankings that leaves out the last resume.
FallbackRankingsShort(resumes) ==
    JDict(<<"rankings">>,
          <<JList([i \in 1..(Len(resumes) - 1) |-> FallbackEntry(resumes[i], i - 1)])>>)

\* The fallback record: one entry per resume, in order.
FallbackRankings(resumes) ==
    JDict(<<"rankings">>,
          <<JList([i \in 1..Len(resumes) |-> FallbackEntry(resumes[i], i - 1)])>>)

\* EndIdx without the + 1: the slice then stops before the last "}".
EndIdxExclusive(s) == rfind_close(s)

\* response.rfind('}') + 1
EndIdx(s) == rfind_close(s) + 1

\* The try block that turns the response into rankings: the direct parse,
\* on JSONDecodeError the parse of the text from the first "{" to the last
\* "}", and the fallback when there is no such text or its parse raises.
\* The handler around it (lines 207-221) is for what json.loads raises
\* other than JSONDecodeError, a RecursionError on nesting some thousand
\* levels deep; get_gemini_response itself never raises.
ExtractRankings(s, resumes) ==
    LET direct == json_loads(s) IN
    IF direct.ok THEN direct.val
    ELSE LET start_idx == find_open(s)
             end_idx == EndIdx(s)
         IN  IF start_idx # -1 /\ end_idx # 0
             THEN LET sub == json_loads(Slice(s, start_idx, end_idx)) IN
                  IF sub.ok THEN sub.val ELSE FallbackRankings(resumes)
             ELSE FallbackRankings(resumes)

\* Validate with no check at all: whatever was parsed is returned.
ValidateNothing(rankings, resumes) == rankings

\* Validate that also replaces a record whose rankings list does not have
\* one entry per resume.
ValidateCount(rankings, resumes) ==
    IF \/ ~IsDict(rankings)
       \/ ~HasKey(rankings, "rankings")
       \/ /\ IsList(Get(rankings, "rankings"))
          /\ Len(Get(rankings, "rankings").items) # Len(resumes)
    THEN FallbackRankings(resumes)
    ELSE rankings

\* The validation of the rankings structure.
Validate(rankings, resumes) ==
    IF ~IsDict(rankings) \/ ~HasKey(rankings, "rankings")
    THEN FallbackRankings(resumes)
    ELSE rankings

\* ------------------------------------------------------------- the actions
Init ==
    /\ pc = "idle"
    /\ job_description \in JobDescriptions
    /\ \E u \in Uploads : uploaded_files = [i \in DOMAIN u |-> FileAt(u, i)]
    /\ file_idx = 0
    /\ all_resumes = <<>>
    /\ combined_prompt = <<>>
    /\ calls = <<>>
    /\ ai_failed = FALSE
    /\ response = <<>>
    /\ result = Unset

\* The "Rank Resumes" button: with documents uploaded and a job description
\* that is not blank, process_bulk_resumes starts.
RankResumes ==
    /\ pc = "idle"
    /\ uploaded_files # <<>>
    /\ Strip(job_description) # ""
    /\ pc' = "extract"
    /\ UNCHANGED <<job_description, uploaded_files, file_idx, all_resumes,
                   combined_prompt, calls, ai_failed, response, result>>

\* One turn of the extraction loop.
ExtractNext ==
    /\ pc = "extract"
    /\ file_idx < Len(uploaded_files)
    /\ LET file == uploaded_files[file_idx + 1] IN
       all_resumes' = Append(all_resumes,
                             [name |-> file.name,
                              content |-> extract_text_from_pdf(file)])
    /\ file_idx' = file_idx + 1
    /\ UNCHANGED <<pc, job_description, uploaded_files, combined_prompt,
                   calls, ai_failed, response, result>>

\* The end of the loop: None for an empty resume list, else the prompt.
BuildPrompt ==
    /\ pc = "extract"
    /\ file_idx = Len(uploaded_files)
    /\ IF all_resumes = <<>>
       THEN /\ result' = JNone
            /\ pc' = "done"
            /\ UNCHANGED combined_prompt
       ELSE /\ combined_prompt' = CombinedPrompt(job_description, all_resumes)
            /\ pc' = "call"
            /\ UNCHANGED result
    /\ UNCHANGED <<job_description, uploaded_files, file_idx, all_resumes,
                   calls, ai_failed, response>>

\* The one call of get_gemini_response: the model replies with some text,
\* or with no text, or the call fails with some message.
CallGemini ==
    /\ pc = "call"
    /\ \/ \E n \in 0..MaxLen : \E text \in [1..n -> Chunks] :
             /\ response' = get_gemini_response("text", text)
             /\ ai_failed' = FALSE
       \/ /\ response' = get_gemini_response("no text", <<>>)
          /\ ai_failed' = FALSE
       \/ \E n \in 0..(MaxLen - 1) : \E message \in [1..n -> Chunks] :
             /\ response' = get_gemini_response("raised", message)
             /\ ai_failed' = TRUE
    /\ calls' = Append(calls, [input_text |-> combined_prompt,
                               pdf_content |-> "",
                               prompt |-> RankPrompt])
    /\ pc' = "parse"
    /\ UNCHANGED <<job_description, uploaded_files, file_idx, all_resumes,
                   combined_prompt, result>>

\* The parse chain, the validation and the return.
Normalize ==
    /\ pc = "parse"
    /\ result' = Validate(ExtractRankings(response, all_resumes), all_resumes)
    /\ pc' = "done"
    /\ UNCHANGED <<job_description, uploaded_files, file_idx, all_resumes,
                   combined_prompt, calls, ai_failed, response>>

Next ==
    \/ RankResumes
    \/ ExtractNext
    \/ BuildPrompt
    \/ CallGemini
    \/ Normalize

Spec == Init /\ [][Next]_vars

\* ------------------------------------------------- what the claims speak of
\* The request has returned.
Returned == pc = "done"

\* The whole response parses as JSON; the value it parses to.
Parses(s) == json_loads(s).ok
Parsed(s) == json_loads(s).val

\* The positions of the opening and of the closing braces of a text.
OpenPositions(s) == {i \in 1..Len(s) : StartsWithBrace(s[i])}
ClosePositions(s) == {i \in 1..Len(s) : s[i] = "}"}
Lowest(S) == CHOOSE x \in S : \A y \in S : x <= y
Highest(S) == CHOOSE x \in S : \A y \in S : x >= y

\* The text holds a "{" and a "}".
HasBracePair(s) == OpenPositions(s) # {} /\ ClosePositions(s) # {}

\* The text from the first "{" to the last "}", both included; empty when
\* the first "{" comes after the last "}".
BraceSubstring(s) == SubSeq(s, Lowest(OpenPositions(s)), Highest(ClosePositions(s)))

\* The first "{" comes after the last "}".
BracesCrossed(s) ==
    HasBracePair(s) /\ Lowest(OpenPositions(s)) > Highest(ClosePositions(s))

\* Validation as the specification words it: a record with a key rankings
\* whose value is a sequence.
PassesValidation(v) ==
    IsDict(v) /\ HasKey(v, "rankings") /\ IsList(Get(v, "rankings"))

\* No structured data can be recovered from the text.
NothingRecoverable(s) ==
    /\ ~Parses(s)
    /\ ~HasBracePair(s) \/ ~Parses(BraceSubstring(s))

\* e is the fallback entry of the resume called name, ranked rank.
IsFallbackEntry(e, name, rank) ==
    /\ IsDict(e)
    /\ Len(e.keys) = 5
    /\ \A key \in {"resume_name", "match_percentage", "rank", "strengths", "gaps"} :
          HasKey(e, key)
    /\ Get(e, "resume_name") = JStr(name)
    /\ Get(e, "match_percentage") = JInt(0)
    /\ Get(e, "rank") = JInt(rank)
    /\ Get(e, "strengths") = JList(<<JStr("Unable to analyze strengths")>>)
    /\ Get(e, "gaps") = JList(<<JStr("Unable to analyze gaps")>>)

\* v is the full fallback result of the resumes: one fallback entry per
\* resume, in input order, ranked by position.
IsFullFallback(v, resumes) ==
    /\ IsDict(v)
    /\ v.keys = <<"rankings">>
    /\ IsList(Get(v, "rankings"))
    /\ Len(Get(v, "rankings").items) = Len(resumes)
    /\ \A i \in 1..Len(resumes) :
          IsFallbackEntry(Get(v, "rankings").items[i], resumes[i].name, i)

\* v has a rankings sequence with exactly one entry per resume.
HasOneEntryPerResume(v, resumes) ==
    /\ PassesValidation(v)
    /\ Len(Get(v, "rankings").items) = Len(resumes)

\* v is a record read word for word out of the text: the whole of it, or
\* its first-"{"-to-last-"}" substring.
ReadFromResponse(v, s) ==
    \/ Parses(s) /\ v = Parsed(s)
    \/ HasBracePair(s) /\ Parses(BraceSubstring(s)) /\ v = Parsed(BraceSubstring(s))

\* p is the job description followed by every resume in order, each
\* resume's name and content followed by the delimiter.
IsPromptOf(p, jd, resumes) ==
    /\ Len(p) = 3 + 4 * Len(resumes)
    /\ p[1] = "Job Description:"
    /\ p[2] = jd
    /\ \A i \in 1..Len(resumes) :
          /\ p[4 * i + 1] = resumes[i].name
          /\ p[4 * i + 2] = resumes[i].content
          /\ p[4 * i + 3] = "---"

\* Extraction failed for the uploaded document at position i.
ExtractionFailed(i) == ~uploaded_files[i].readable

\* ------------------------------------------------------------------ claims

\* C1 as stated: for every non-empty resume set of size N and every
\* response, the returned rankings is a sequence of exactly N entries.
C1_CardinalityAlways ==
    (Returned /\ all_resumes # <<>>) => HasOneEntryPerResume(result, all_resumes)

\* C1 amended: for every non-empty resume set of size N and every response,
\* the returned result either is a record read word for word out of the
\* response (with however many entries the response gave it) or has a
\* rankings sequence of exactly N entries, the i-th one naming the i-th
\* input resume.
C1_CardinalityUnlessRead ==
    (Returned /\ all_resumes # <<>>) =>
        \/ /\ HasOneEntryPerResume(result, all_resumes)
           /\ \A i \in 1..Len(all_resumes) :
                 LET e == Get(result, "rankings").items[i] IN
                 /\ IsDict(e)
                 /\ HasKey(e, "resume_name")
                 /\ Get(e, "resume_name") = JStr(all_resumes[i].name)
        \/ ReadFromResponse(result, response)

\* C1 witness: a response that is well-formed JSON but no record was
\* answered with one entry for each of several resumes.
C1_Witness ==
    /\ Returned
    /\ Len(all_resumes) >= 2
    /\ Parses(response)
    /\ ~IsDict(Parsed(response))
    /\ HasOneEntryPerResume(result, all_resumes)

\* C2: for every response and every non-empty resume set the request ends
\* by returning a record that has the key rankings; no parse or validation
\* failure leaves it with an exception or an absent result.
C2_AlwaysRankingsRecord ==
    (Returned /\ all_resumes # <<>>) =>
        IsDict(result) /\ HasKey(result, "rankings")

\* C2 witness: both parses failed (the direct one and the one of the
\* substring between the braces) and a record was returned all the same.
C2_Witness ==
    /\ Returned
    /\ ~Parses(response)
    /\ HasBracePair(response)
    /\ ~BracesCrossed(response)
    /\ ~Parses(BraceSubstring(response))
    /\ IsDict(result)

\* C3: whenever the whole response parses as a record with a rankings
\* sequence, the returned value is that record, unchanged.
C3_DirectParseIdentity ==
    (Returned /\ Parses(response) /\ PassesValidation(Parsed(response))) =>
        result = Parsed(response)

\* C3 witness: a directly parsed record was returned although its rankings
\* do not have one entry per resume.
C3_Witness ==
    /\ Returned
    /\ Parses(response)
    /\ PassesValidation(Parsed(response))
    /\ result = Parsed(response)
    /\ Len(Get(result, "rankings").items) # Len(all_resumes)

\* C4: whenever nothing can be recovered from the response (it does not
\* parse, and it has no brace pair or the substring between the braces does
\* not parse), the result is the full fallback: one entry per resume in
\* input order, named after it, ranked by position from 1, with 0 percent
\* and the two "Unable to analyze" notes.
C4_FallbackSynthesis ==
    (Returned /\ NothingRecoverable(response)) =>
        IsFullFallback(result, all_resumes)

\* C4 witness: the first "{" of the response came after its last "}", and
\* the fallback of several resumes was returned.
C4_Witness ==
    /\ Returned
    /\ BracesCrossed(response)
    /\ Len(all_resumes) >= 2
    /\ IsFullFallback(result, all_resumes)

C6_RankingsIsSequence ==
    (Returned /\ all_resumes # <<>>) => PassesValidation(result)

\* C7 as stated: whenever the call to the model fails, the full fallback
\* is returned, whatever the text of the failure.
C7_FailureGivesFallback ==
    (Returned /\ ai_failed) => IsFullFallback(result, all_resumes)

\* C8 as stated: when extraction fails for some documents and succeeds for
\* others, the failed ones are in neither the resume set nor the prompt.
C8_FailedDocumentsSkipped ==
    ( /\ pc \in {"call", "parse", "done"}
      /\ \E i \in 1..Len(uploaded_files) : ~ExtractionFailed(i) ) =>
        \A i \in 1..Len(uploaded_files) :
            ExtractionFailed(i) =>
                /\ \A j \in 1..Len(all_resumes) :
                      all_resumes[j].name # uploaded_files[i].name
                /\ \A k \in 1..Len(combined_prompt) :
                      combined_prompt[k] # uploaded_files[i].name

\* C9 as stated: if extraction fails for every uploaded document, no call
\* to the model is made and the request reports an absent result.
C9_NoSurvivorNoRanking ==
    (uploaded_files # <<>> /\ \A i \in 1..Len(uploaded_files) : ExtractionFailed(i)) =>
        /\ calls = <<>>
        /\ Returned => result = JNone

\* C10: a request makes exactly one call to the model, after every
\* document has been through extraction, with a prompt that holds the job
\* description and then every resume in input order, each followed by the
\* delimiter; no second call follows a parse failure or a fallback.
C10_OneCallOnePrompt ==
    /\ Len(calls) <= 1
    /\ pc \in {"parse", "done"} => Len(calls) = 1
    /\ Len(calls) = 1 =>
          /\ file_idx = Len(uploaded_files)
          /\ IsPromptOf(calls[1].input_text, job_description, all_resumes)

\* C10 witness: the fallback was returned for several resumes after the
\* one call.
C10_Witness ==
    /\ Returned
    /\ Len(calls) = 1
    /\ Len(all_resumes) >= 2
    /\ NothingRecoverable(response)
    /\ IsFullFallback(result, all_resumes)

====
